---- MODULE Spec2Model ----
(***************************************************************************)
(* The MLflow charm (src/src/charm.py) as a state machine.                 *)
(*                                                                         *)
(* One action per observed event.  A handler runs to completion before the *)
(* next event is dispatched (the platform's dispatch loop is single        *)
(* threaded), so each handler is one atomic step.  The model state is what *)
(* the handlers read (leadership, config, relation data, the object store, *)
(* the container) and what they write (unit status, the container plan,    *)
(* the object store, the data sent over the downstream relations).         *)
(* Construction of the charm object (__init__) is assumed to succeed.      *)
(*                                                                         *)
(* Strings the code builds by interpolation are tuples of their pieces, so *)
(* that formatting and parsing are computed, not assumed.                  *)
(***************************************************************************)
EXTENDS Naturals, Sequences, FiniteSets, TLC

VARIABLES
    leader,          \* self.unit.is_leader()
    canConnect,      \* self.container.can_connect(): the workload container is up
    versions,        \* what get_interfaces(self) does: "ok", "no_versions", "no_compatible"
    objectStorage,   \* the object-storage relation: [rel, data]
    relationalDb,    \* the relational-db relation: [rel, data]
    secretsRel,      \* interfaces["secrets"] is a non-empty interface object
    podDefaultsRel,  \* interfaces["pod-defaults"] is a non-empty interface object
    config,          \* self.config: default_artifact_root, create_default_artifact_root_if_missing
    store,           \* the object store: the buckets check_if_bucket_accessible answers True for
    plan,            \* self.container.get_plan().services: <<>> or <<service>>
    status,          \* self.unit.status
    \* ---- history of the handler that ran last (reset by every change of the environment)
    handler,         \* its name, "none" after a change of the environment
    outcome,         \* how it ended: "none", "set", "active", "stopped", "uncaught", "crashed"
    raised,          \* the ErrorWithStatus it raised, <<>> or <<[step, status]>>
    effects,         \* the calls with side effects it made, in order
    answers,         \* the answers check_if_bucket_accessible gave it, in order
    validated,       \* what _validate_default_s3_bucket_name_and_access did: "none", "raised", "true", "false"
    desired,         \* the layer services it computed, <<>> or <<service>>
    assigned,        \* the values it assigned to self.unit.status, in order
    rerun            \* it re-ran a pass that ended Active, with nothing changed since that pass began

vars == <<leader, canConnect, versions, objectStorage, relationalDb, secretsRel,
          podDefaultsRel, config, store, plan, status,
          handler, outcome, raised, effects, answers, validated, desired, assigned,
          rerun>>

envVars == <<leader, canConnect, versions, objectStorage, relationalDb, secretsRel,
             podDefaultsRel, config>>

-----------------------------------------------------------------------------
(* Bounds and input domains *)

Passwords == {"lorem-ipsum", "dolor-sit"}

\* DatabaseRequires supplies a user created for the relation.
Usernames == {"relation-7"}

\* "host:port" as the pieces of the string.
Endpoints == {<<"mysql-host", ":", "3306">>}

\* The database the provider reports back; the charm does not read it.
Databases == {"database"}

DbData ==
    [endpoints : Endpoints, username : Usernames, password : Passwords,
     database : Databases]

ObjectStorageData ==
    {[access_key |-> "minio-access-key", secret_key |-> "minio-super-secret-key",
      service |-> "minio", namespace |-> "kubeflow", port |-> "9000", secure |-> TRUE]}

\* Number of distinct valid bucket names default_artifact_root may take.
NumBuckets == 1

\* Bucket names as tuples of characters: "mlf-a", "mlf-b", ... and the invalid "Mlf".
Letters == <<"a", "b", "c", "d">>
GoodBucket(i) == <<"m", "l", "f", "-", Letters[i]>>
BadBucket == <<"M", "l", "f">>
BucketNames == {GoodBucket(i) : i \in 1..NumBuckets} \cup {BadBucket}

LowerOrDigit == {"a", "b", "c", "d", "f", "l", "m", "0", "1"}

\* services.s3.validate_s3_bucket_name: 3 or more characters, lower-case letters,
\* digits and hyphens only, beginning and ending with a letter or digit.
validate_s3_bucket_name(name) ==
    /\ Len(name) > 2
    /\ \A i \in 1..Len(name) : name[i] \in LowerOrDigit \cup {"-"}
    /\ name[1] \in LowerOrDigit
    /\ name[Len(name)] \in LowerOrDigit

ValidBuckets == {b \in BucketNames : validate_s3_bucket_name(b)}

-----------------------------------------------------------------------------
(* Statuses and errors *)

ActiveStatus == [name |-> "active", message |-> ""]
BlockedStatus(msg) == [name |-> "blocked", message |-> msg]
WaitingStatus(msg) == [name |-> "waiting", message |-> msg]
MaintenanceStatus(msg) == [name |-> "maintenance", message |-> msg]

\* The status of a unit no handler has run on yet.
InitialStatus == MaintenanceStatus("")

\* raise ErrorWithStatus(msg, status_type) in `step`; NoError when nothing is raised.
ErrorWithStatus(step, st) == <<[step |-> step, status |-> st]>>
NoError == <<>>

METRICS_PATH == "/metrics"
ContainerName == "mlflow-server"
DatabaseName == "mlflow"
MlflowPort == "5000"

-----------------------------------------------------------------------------
(* The helpers of MlflowCharm.  Each returns what the method returns, with
   `err` the ErrorWithStatus it raises (NoError when it returns). *)

\* "http://{service}.{namespace}:{port}"
S3Endpoint(object_storage_data) ==
    <<"http://", object_storage_data.service, ".", object_storage_data.namespace,
      ":", object_storage_data.port>>

\* str.split(":") on a string given by its pieces.
SplitColon(pieces) == SelectSeq(pieces, LAMBDA p : p # ":")

\* _get_env_vars with the password left out of the tracking URI.
_get_env_vars_no_password(relational_db_data, object_storage_data) ==
    [MLFLOW_S3_ENDPOINT_URL |-> S3Endpoint(object_storage_data),
     AWS_ENDPOINT_URL |-> S3Endpoint(object_storage_data),
     AWS_ACCESS_KEY_ID |-> object_storage_data.access_key,
     AWS_SECRET_ACCESS_KEY |-> object_storage_data.secret_key,
     USE_SSL |-> IF object_storage_data.secure THEN "true" ELSE "false",
     DB_ROOT_PASSWORD |-> relational_db_data.password,
     MLFLOW_TRACKING_URI |->
         <<"mysql+pymysql://", relational_db_data.username, ":",
           relational_db_data.username, "@", relational_db_data.host, ":",
           relational_db_data.port, "/", DatabaseName>>]

_get_env_vars(relational_db_data, object_storage_data) ==
    [MLFLOW_S3_ENDPOINT_URL |-> S3Endpoint(object_storage_data),
     AWS_ENDPOINT_URL |-> S3Endpoint(object_storage_data),
     AWS_ACCESS_KEY_ID |-> object_storage_data.access_key,
     AWS_SECRET_ACCESS_KEY |-> object_storage_data.secret_key,
     USE_SSL |-> IF object_storage_data.secure THEN "true" ELSE "false",
     DB_ROOT_PASSWORD |-> relational_db_data.password,
     MLFLOW_TRACKING_URI |->
         <<"mysql+pymysql://", relational_db_data.username, ":",
           relational_db_data.password, "@", relational_db_data.host, ":",
           relational_db_data.port, "/", DatabaseName>>]

\* The services of the layer: the command as its space-separated words.
\* _charmed_mlflow_layer with the artifact root fixed to the bucket "mlflow".
_charmed_mlflow_layer_fixed_root(env_vars, default_artifact_root) ==
    [name |-> ContainerName,
     override |-> "replace",
     command |-> <<"mlflow", "server", "--host", "0.0.0.0", "--port", MlflowPort,
                   "--backend-store-uri", "$(MLFLOW_TRACKING_URI)",
                   "--default-artifact-root", <<"s3://", <<"m", "l", "f", "l", "o", "w">>, "/">>,
                   "--expose-prometheus", METRICS_PATH>>,
     startup |-> "enabled",
     environment |-> env_vars]

_charmed_mlflow_layer(env_vars, default_artifact_root) ==
    [name |-> ContainerName,
     override |-> "replace",
     command |-> <<"mlflow", "server", "--host", "0.0.0.0", "--port", MlflowPort,
                   "--backend-store-uri", "$(MLFLOW_TRACKING_URI)",
                   "--default-artifact-root", <<"s3://", default_artifact_root, "/">>,
                   "--expose-prometheus", METRICS_PATH>>,
     startup |-> "enabled",
     environment |-> env_vars]

\* _check_leader that lets every unit through.
_check_leader_skipped == NoError

_check_leader ==
    IF ~leader
    THEN ErrorWithStatus("leader", WaitingStatus("Waiting for leadership"))
    ELSE NoError

_get_interfaces ==
    CASE versions = "no_versions" ->
             [err |-> ErrorWithStatus("interfaces", WaitingStatus("NoVersionsListed")),
              value |-> <<>>]
      [] versions = "no_compatible" ->
             [err |-> ErrorWithStatus("interfaces", BlockedStatus("NoCompatibleVersions")),
              value |-> <<>>]
      [] OTHER ->
             [err |-> NoError,
              value |-> <<[object_storage |-> objectStorage,
                           secrets |-> secretsRel,
                           pod_defaults |-> podDefaultsRel]>>]

\* interfaces["object-storage"] is None without the relation; get_data() is the
\* sequence of the values the related applications sent.
_get_object_storage_data(interfaces) ==
    IF ~(interfaces.object_storage.rel /\ interfaces.object_storage.data # <<>>)
    THEN [err |-> ErrorWithStatus("object_storage",
                      WaitingStatus("Waiting for object-storage relation data")),
          value |-> <<>>]
    ELSE [err |-> NoError, value |-> <<Head(interfaces.object_storage.data)>>]

\* fetch_relation_data() is the sequence of the non-empty values of the relation;
\* crash: unpacking the split endpoints into host, port raises ValueError.
_get_relational_db_data ==
    IF ~relationalDb.rel
    THEN [err |-> ErrorWithStatus("relational_db",
                      BlockedStatus("Please add relation to the database")),
          crash |-> FALSE, value |-> <<>>]
    ELSE IF relationalDb.data = <<>>
    THEN [err |-> ErrorWithStatus("relational_db",
                      WaitingStatus("Waiting for relational-db relation data")),
          crash |-> FALSE, value |-> <<>>]
    ELSE LET val == Head(relationalDb.data)
             parts == SplitColon(val.endpoints)
         IN  IF Len(parts) # 2
             THEN [err |-> NoError, crash |-> TRUE, value |-> <<>>]
             ELSE [err |-> NoError, crash |-> FALSE,
                   value |-> <<[host |-> parts[1], port |-> parts[2],
                                username |-> val.username,
                                password |-> val.password]>>]

\* The validation with the flag dropped from its second condition: False is
\* returned whenever the second check finds the bucket not accessible.
_validate_flag_dropped(bucket_name, first, second) ==
    IF ~validate_s3_bucket_name(bucket_name)
    THEN [err |-> ErrorWithStatus("bucket_name",
                      BlockedStatus("Invalid value for config default_artifact_root")),
          value |-> FALSE, answers |-> <<>>]
    ELSE IF ~first /\ ~config.create_default_artifact_root_if_missing
    THEN [err |-> ErrorWithStatus("bucket_access",
                      BlockedStatus("Error with default S3 artifact store - bucket not accessible or does not exist")),
          value |-> FALSE, answers |-> <<first>>]
    ELSE IF ~second
    THEN [err |-> NoError, value |-> FALSE, answers |-> <<first, second>>]
    ELSE [err |-> NoError, value |-> TRUE, answers |-> <<first, second>>]

\* The validation asking the object store before it looks at the name.
_validate_access_first(bucket_name, first, second) ==
    IF ~first /\ ~config.create_default_artifact_root_if_missing
    THEN [err |-> ErrorWithStatus("bucket_access",
                      BlockedStatus("Error with default S3 artifact store - bucket not accessible or does not exist")),
          value |-> FALSE, answers |-> <<first>>]
    ELSE IF ~validate_s3_bucket_name(bucket_name)
    THEN [err |-> ErrorWithStatus("bucket_name",
                      BlockedStatus("Invalid value for config default_artifact_root")),
          value |-> FALSE, answers |-> <<first>>]
    ELSE IF ~second /\ config.create_default_artifact_root_if_missing
    THEN [err |-> NoError, value |-> FALSE, answers |-> <<first, second>>]
    ELSE [err |-> NoError, value |-> TRUE, answers |-> <<first, second>>]

\* first, second: the answers of the two check_if_bucket_accessible calls (the
\* second call is made only when the first branch does not raise).
_validate_default_s3_bucket_name_and_access(bucket_name, first, second) ==
    IF ~validate_s3_bucket_name(bucket_name)
    THEN [err |-> ErrorWithStatus("bucket_name",
                      BlockedStatus("Invalid value for config default_artifact_root")),
          value |-> FALSE, answers |-> <<>>]
    ELSE IF ~first /\ ~config.create_default_artifact_root_if_missing
    THEN [err |-> ErrorWithStatus("bucket_access",
                      BlockedStatus("Error with default S3 artifact store - bucket not accessible or does not exist")),
          value |-> FALSE, answers |-> <<first>>]
    ELSE IF ~second /\ config.create_default_artifact_root_if_missing
    THEN [err |-> NoError, value |-> FALSE, answers |-> <<first, second>>]
    ELSE [err |-> NoError, value |-> TRUE, answers |-> <<first, second>>]

\* _create_default_s3_bucket with the exception swallowed.
_create_default_s3_bucket_swallowed(created) == NoError

\* created: s3_wrapper.create_bucket returned; otherwise it raised an exception.
_create_default_s3_bucket(created) ==
    IF created
    THEN NoError
    ELSE ErrorWithStatus("create_bucket",
             BlockedStatus("Error with default S3 artifact store - bucket not accessible or cannot be created"))

\* _update_layer without the comparison with the current plan: the layer is
\* added and replanned in every pass.
_update_layer_always(envs, default_artifact_root, replanOk) ==
    LET new_layer == _charmed_mlflow_layer(envs, default_artifact_root)
    IN  IF ~canConnect
        THEN [err |-> NoError, crash |-> TRUE, plan |-> plan, status |-> <<>>,
              effects |-> <<>>, desired |-> <<>>]
        ELSE [err |-> IF replanOk THEN NoError
                      ELSE ErrorWithStatus("replan", BlockedStatus("Failed to replan")),
              crash |-> FALSE, plan |-> <<new_layer>>,
              status |-> <<MaintenanceStatus("Applying new pebble layer")>>,
              effects |-> <<"add_layer", "replan">>, desired |-> <<new_layer>>]

\* _update_layer putting the previous plan back when replan fails.
_update_layer_rollback(envs, default_artifact_root, replanOk) ==
    LET new_layer == _charmed_mlflow_layer(envs, default_artifact_root)
    IN  IF ~canConnect
        THEN [err |-> NoError, crash |-> TRUE, plan |-> plan, status |-> <<>>,
              effects |-> <<>>, desired |-> <<>>]
        ELSE IF plan # <<new_layer>>
        THEN [err |-> IF replanOk THEN NoError
                      ELSE ErrorWithStatus("replan", BlockedStatus("Failed to replan")),
              crash |-> FALSE, plan |-> IF replanOk THEN <<new_layer>> ELSE plan,
              status |-> <<MaintenanceStatus("Applying new pebble layer")>>,
              effects |-> <<"add_layer", "replan">>, desired |-> <<new_layer>>]
        ELSE [err |-> NoError, crash |-> FALSE, plan |-> plan, status |-> <<>>,
              effects |-> <<>>, desired |-> <<new_layer>>]

\* _update_layer calling replan a second time when the first raises ChangeError.
_update_layer_retry(envs, default_artifact_root, replanOk) ==
    LET new_layer == _charmed_mlflow_layer(envs, default_artifact_root)
    IN  IF ~canConnect
        THEN [err |-> NoError, crash |-> TRUE, plan |-> plan, status |-> <<>>,
              effects |-> <<>>, desired |-> <<>>]
        ELSE IF plan # <<new_layer>>
        THEN [err |-> IF replanOk THEN NoError
                      ELSE ErrorWithStatus("replan", BlockedStatus("Failed to replan")),
              crash |-> FALSE, plan |-> <<new_layer>>,
              status |-> <<MaintenanceStatus("Applying new pebble layer")>>,
              effects |-> IF replanOk THEN <<"add_layer", "replan">>
                          ELSE <<"add_layer", "replan", "replan">>,
              desired |-> <<new_layer>>]
        ELSE [err |-> NoError, crash |-> FALSE, plan |-> plan, status |-> <<>>,
              effects |-> <<>>, desired |-> <<new_layer>>]

\* _update_layer replacing the layer only when the plan holds none.
_update_layer_only_if_empty(envs, default_artifact_root, replanOk) ==
    LET new_layer == _charmed_mlflow_layer(envs, default_artifact_root)
    IN  IF ~canConnect
        THEN [err |-> NoError, crash |-> TRUE, plan |-> plan, status |-> <<>>,
              effects |-> <<>>, desired |-> <<>>]
        ELSE IF plan = <<>>
        THEN [err |-> IF replanOk THEN NoError
                      ELSE ErrorWithStatus("replan", BlockedStatus("Failed to replan")),
              crash |-> FALSE, plan |-> <<new_layer>>,
              status |-> <<MaintenanceStatus("Applying new pebble layer")>>,
              effects |-> <<"add_layer", "replan">>, desired |-> <<new_layer>>]
        ELSE [err |-> NoError, crash |-> FALSE, plan |-> plan, status |-> <<>>,
              effects |-> <<>>, desired |-> <<new_layer>>]

\* _update_layer setting MaintenanceStatus before it compares the layers.
_update_layer_maintenance_first(envs, default_artifact_root, replanOk) ==
    LET new_layer == _charmed_mlflow_layer(envs, default_artifact_root)
    IN  IF ~canConnect
        THEN [err |-> NoError, crash |-> TRUE, plan |-> plan, status |-> <<>>,
              effects |-> <<>>, desired |-> <<>>]
        ELSE IF plan # <<new_layer>>
        THEN [err |-> IF replanOk THEN NoError
                      ELSE ErrorWithStatus("replan", BlockedStatus("Failed to replan")),
              crash |-> FALSE, plan |-> <<new_layer>>,
              status |-> <<MaintenanceStatus("Applying new pebble layer")>>,
              effects |-> <<"add_layer", "replan">>, desired |-> <<new_layer>>]
        ELSE [err |-> NoError, crash |-> FALSE, plan |-> plan,
              status |-> <<MaintenanceStatus("Applying new pebble layer")>>,
              effects |-> <<>>, desired |-> <<new_layer>>]

\* replanOk: container.replan() returned; otherwise it raised ChangeError.
\* crash: get_plan() on a container that cannot be connected to raises
\* ConnectionError, which nothing catches.
_update_layer(envs, default_artifact_root, replanOk) ==
    LET new_layer == _charmed_mlflow_layer(envs, default_artifact_root)
    IN  IF ~canConnect
        THEN [err |-> NoError, crash |-> TRUE, plan |-> plan, status |-> <<>>,
              effects |-> <<>>, desired |-> <<>>]
        ELSE IF plan # <<new_layer>>
        THEN [err |-> IF replanOk THEN NoError
                      ELSE ErrorWithStatus("replan", BlockedStatus("Failed to replan")),
              crash |-> FALSE, plan |-> <<new_layer>>,
              status |-> <<MaintenanceStatus("Applying new pebble layer")>>,
              effects |-> <<"add_layer", "replan">>, desired |-> <<new_layer>>]
        ELSE [err |-> NoError, crash |-> FALSE, plan |-> plan, status |-> <<>>,
              effects |-> <<>>, desired |-> <<new_layer>>]

\* _send_manifests without the test of the interface object.
_send_manifests_always(present, relation) == <<relation>>

\* The send_data calls _send_manifests makes on `relation`.
_send_manifests(present, relation) ==
    IF present THEN <<relation>> ELSE <<>>

-----------------------------------------------------------------------------
(* The reconciliation pass *)

\* The pass before its first step: nothing raised, nothing done.
Begin ==
    [status |-> status, store |-> store, plan |-> plan, raised |-> NoError,
     effects |-> <<>>, answers |-> <<>>, validated |-> "none", desired |-> <<>>,
     assigned |-> <<>>, outcome |-> "none"]

\* except ErrorWithStatus as err: self.model.unit.status = err.status; return
Stopped(pass, err) ==
    [pass EXCEPT !.status = err[1].status,
                 !.assigned = pass.assigned \o <<err[1].status>>,
                 !.raised = err, !.outcome = "stopped"]

\* An exception that is no ErrorWithStatus leaves the handler: the hook fails.
Crashed(pass) == [pass EXCEPT !.outcome = "crashed"]

\* The object store after the accessibility checks: the second answer is the
\* store's state when it differs from the first (the store is shared).
StoreAfterChecks(bucket_name, given) ==
    IF Len(given) < 2 THEN store
    ELSE IF given[2] THEN store \cup {bucket_name}
    ELSE store \ {bucket_name}

\* Lines 341-363 without the final assignment of ActiveStatus.
Apply_status_kept(pass, interfaces, envs, bucket_name, replanOk) ==
    LET u == _update_layer(envs, bucket_name, replanOk)
        updated == [pass EXCEPT !.plan = u.plan,
                                !.effects = pass.effects \o u.effects,
                                !.desired = u.desired,
                                !.assigned = pass.assigned \o u.status,
                                !.status = IF u.status = <<>> THEN pass.status
                                           ELSE u.status[1]]
    IN  IF u.crash THEN Crashed(pass)
        ELSE IF u.err # NoError THEN Stopped(updated, u.err)
        ELSE [updated EXCEPT
                 !.effects = updated.effects
                                 \o _send_manifests(interfaces.secrets, "secrets")
                                 \o _send_manifests(interfaces.pod_defaults, "pod-defaults"),
                 !.outcome = "active"]

\* Lines 341-363 with the manifests sent before the layer is updated.
Apply_manifests_first(pass, interfaces, envs, bucket_name, replanOk) ==
    LET u == _update_layer(envs, bucket_name, replanOk)
        sent == [pass EXCEPT
                    !.effects = pass.effects
                                    \o _send_manifests(interfaces.secrets, "secrets")
                                    \o _send_manifests(interfaces.pod_defaults, "pod-defaults")]
        updated == [sent EXCEPT !.plan = u.plan,
                                !.effects = sent.effects \o u.effects,
                                !.desired = u.desired,
                                !.assigned = pass.assigned \o u.status,
                                !.status = IF u.status = <<>> THEN pass.status
                                           ELSE u.status[1]]
    IN  IF u.crash THEN Crashed(sent)
        ELSE IF u.err # NoError THEN Stopped(updated, u.err)
        ELSE [updated EXCEPT !.status = ActiveStatus,
                             !.assigned = updated.assigned \o <<ActiveStatus>>,
                             !.outcome = "active"]

\* Lines 341-363: the layer update, the manifests, the final status.
Apply(pass, interfaces, envs, bucket_name, replanOk) ==
    LET u == _update_layer(envs, bucket_name, replanOk)
        updated == [pass EXCEPT !.plan = u.plan,
                                !.effects = pass.effects \o u.effects,
                                !.desired = u.desired,
                                !.assigned = pass.assigned \o u.status,
                                !.status = IF u.status = <<>> THEN pass.status
                                           ELSE u.status[1]]
    IN  IF u.crash THEN Crashed(pass)
        ELSE IF u.err # NoError THEN Stopped(updated, u.err)
        ELSE [updated EXCEPT
                 !.effects = updated.effects
                                 \o _send_manifests(interfaces.secrets, "secrets")
                                 \o _send_manifests(interfaces.pod_defaults, "pod-defaults"),
                 !.status = ActiveStatus,
                 !.assigned = updated.assigned \o <<ActiveStatus>>,
                 !.outcome = "active"]

\* Lines 336-340: the bucket is validated, and created when that returns False.
Bucket(pass, interfaces, envs, second, created, replanOk) ==
    LET bucket_name == config.default_artifact_root
        v == _validate_default_s3_bucket_name_and_access(
                 bucket_name, bucket_name \in store, second)
        checked == [pass EXCEPT !.answers = v.answers,
                                !.store = StoreAfterChecks(bucket_name, v.answers),
                                !.validated = IF v.err # NoError THEN "raised"
                                              ELSE IF v.value THEN "true" ELSE "false"]
        c == _create_default_s3_bucket(created)
        called == [checked EXCEPT
                      !.effects = checked.effects \o <<"create_bucket">>,
                      !.store = IF created THEN checked.store \cup {bucket_name}
                                ELSE checked.store]
    IN  IF v.err # NoError THEN Stopped(checked, v.err)
        ELSE IF v.value THEN Apply(checked, interfaces, envs, bucket_name, replanOk)
        ELSE IF c # NoError THEN Stopped(called, c)
        ELSE Apply(called, interfaces, envs, bucket_name, replanOk)

\* _on_event reading the database relation before the object storage data.
_on_event_database_first(second, created, replanOk) ==
    LET l == _check_leader
        i == _get_interfaces
        o == _get_object_storage_data(i.value[1])
        d == _get_relational_db_data
    IN  IF l # NoError THEN Stopped(Begin, l)
        ELSE IF i.err # NoError THEN Stopped(Begin, i.err)
        ELSE IF d.err # NoError THEN Stopped(Begin, d.err)
        ELSE IF o.err # NoError THEN Stopped(Begin, o.err)
        ELSE IF d.crash THEN Crashed(Begin)
        ELSE Bucket(Begin, i.value[1], _get_env_vars(d.value[1], o.value[1]),
                    second, created, replanOk)

\* MlflowCharm._on_event.  second, created, replanOk: what the object store
\* and the container answer to the calls the pass makes, if it makes them.
_on_event(second, created, replanOk) ==
    LET l == _check_leader
        i == _get_interfaces
        o == _get_object_storage_data(i.value[1])
        d == _get_relational_db_data
    IN  IF l # NoError THEN Stopped(Begin, l)
        ELSE IF i.err # NoError THEN Stopped(Begin, i.err)
        ELSE IF o.err # NoError THEN Stopped(Begin, o.err)
        ELSE IF d.err # NoError THEN Stopped(Begin, d.err)
        ELSE IF d.crash THEN Crashed(Begin)
        ELSE Bucket(Begin, i.value[1], _get_env_vars(d.value[1], o.value[1]),
                    second, created, replanOk)

\* The two accessibility checks of a pass, if both were made, agreed.
Steady(given) == Len(given) = 2 => given[1] = given[2]

\* The handler's results become the state.
Finish(event, pass) ==
    /\ status' = pass.status
    /\ store' = pass.store
    /\ plan' = pass.plan
    /\ handler' = event
    /\ outcome' = pass.outcome
    /\ raised' = pass.raised
    /\ effects' = pass.effects
    /\ answers' = pass.answers
    /\ validated' = pass.validated
    /\ desired' = pass.desired
    /\ assigned' = pass.assigned
    /\ rerun' = (outcome = "active" /\ Steady(answers)
                 /\ pass.outcome # "none" /\ Steady(pass.answers))
    /\ UNCHANGED envVars

-----------------------------------------------------------------------------
(* The observed events (MlflowCharm.__init__, lines 52-64) *)

\* What the object store and the container may answer to a call of the pass.
Answers == BOOLEAN

\* upgrade-charm, config-changed, relation-changed of every relation,
\* database-created and endpoints-changed all run self._on_event, which does not
\* read the event.
EventObserved ==
    \E pass \in {_on_event(second, created, replanOk) :
                     second \in Answers, created \in Answers, replanOk \in Answers} :
        Finish("_on_event", pass)

\* MlflowCharm._on_pebble_ready: the ErrorWithStatus is raised outside any try.
_on_pebble_ready(second, created, replanOk) ==
    IF ~canConnect
    THEN [Begin EXCEPT
             !.raised = ErrorWithStatus("pebble_ready",
                            BlockedStatus("Pebble is ready and container is not ready")),
             !.outcome = "uncaught"]
    ELSE _on_event(second, created, replanOk)

PebbleReady ==
    \E pass \in {_on_pebble_ready(second, created, replanOk) :
                     second \in Answers, created \in Answers, replanOk \in Answers} :
        Finish("_on_pebble_ready", pass)

\* MlflowCharm._on_database_relation_removed
_on_database_relation_removed ==
    [Begin EXCEPT !.status = BlockedStatus("Please add relation to the database"),
                  !.assigned = <<BlockedStatus("Please add relation to the database")>>,
                  !.outcome = "set"]

\* relational-db relation-broken: the platform removes the relation and runs the handler.
RelationBroken ==
    /\ relationalDb.rel
    /\ relationalDb' = [rel |-> FALSE, data |-> <<>>]
    /\ LET pass == _on_database_relation_removed
       IN  /\ status' = pass.status
           /\ handler' = "_on_database_relation_removed"
           /\ outcome' = pass.outcome
           /\ raised' = pass.raised
           /\ effects' = pass.effects
           /\ answers' = pass.answers
           /\ validated' = pass.validated
           /\ desired' = pass.desired
           /\ assigned' = pass.assigned
           /\ rerun' = FALSE
    /\ UNCHANGED <<leader, canConnect, versions, objectStorage, secretsRel,
                   podDefaultsRel, config, store, plan>>

-----------------------------------------------------------------------------
(* The environment, between two events *)

\* A change of the environment: no handler has run on the new state yet.
Forget ==
    /\ handler' = "none"
    /\ outcome' = "none"
    /\ raised' = NoError
    /\ effects' = <<>>
    /\ answers' = <<>>
    /\ validated' = "none"
    /\ desired' = <<>>
    /\ assigned' = <<>>
    /\ rerun' = FALSE

LeadershipChanges ==
    /\ leader' = ~leader
    /\ Forget
    /\ UNCHANGED <<canConnect, versions, objectStorage, relationalDb, secretsRel,
                   podDefaultsRel, config, store, plan, status>>

ContainerChanges ==
    /\ canConnect' = ~canConnect
    /\ Forget
    /\ UNCHANGED <<leader, versions, objectStorage, relationalDb, secretsRel,
                   podDefaultsRel, config, store, plan, status>>

VersionsChange ==
    /\ \E v \in {"ok", "no_versions", "no_compatible"} : v # versions /\ versions' = v
    /\ Forget
    /\ UNCHANGED <<leader, canConnect, objectStorage, relationalDb, secretsRel,
                   podDefaultsRel, config, store, plan, status>>

ObjectStorageValues ==
    {[rel |-> FALSE, data |-> <<>>], [rel |-> TRUE, data |-> <<>>]}
        \cup {[rel |-> TRUE, data |-> <<d>>] : d \in ObjectStorageData}

ObjectStorageChanges ==
    /\ \E v \in ObjectStorageValues : v # objectStorage /\ objectStorage' = v
    /\ Forget
    /\ UNCHANGED <<leader, canConnect, versions, relationalDb, secretsRel,
                   podDefaultsRel, config, store, plan, status>>

\* The relation is added, or its data change; it is removed by RelationBroken.
RelationalDbValues ==
    {[rel |-> TRUE, data |-> <<>>]} \cup {[rel |-> TRUE, data |-> <<d>>] : d \in DbData}

RelationalDbChanges ==
    /\ \E v \in RelationalDbValues : v # relationalDb /\ relationalDb' = v
    /\ Forget
    /\ UNCHANGED <<leader, canConnect, versions, objectStorage, secretsRel,
                   podDefaultsRel, config, store, plan, status>>

SecretsRelationChanges ==
    /\ secretsRel' = ~secretsRel
    /\ Forget
    /\ UNCHANGED <<leader, canConnect, versions, objectStorage, relationalDb,
                   podDefaultsRel, config, store, plan, status>>

PodDefaultsRelationChanges ==
    /\ podDefaultsRel' = ~podDefaultsRel
    /\ Forget
    /\ UNCHANGED <<leader, canConnect, versions, objectStorage, relationalDb,
                   secretsRel, config, store, plan, status>>

ConfigValues ==
    [default_artifact_root : BucketNames,
     create_default_artifact_root_if_missing : BOOLEAN]

ConfigChanges ==
    /\ \E c \in ConfigValues : c # config /\ config' = c
    /\ Forget
    /\ UNCHANGED <<leader, canConnect, versions, objectStorage, relationalDb,
                   secretsRel, podDefaultsRel, store, plan, status>>

\* Someone else creates or deletes a bucket, or the store becomes (un)reachable.
StoreChanges ==
    /\ \E b \in ValidBuckets :
           store' = IF b \in store THEN store \ {b} ELSE store \cup {b}
    /\ Forget
    /\ UNCHANGED <<leader, canConnect, versions, objectStorage, relationalDb,
                   secretsRel, podDefaultsRel, config, plan, status>>

-----------------------------------------------------------------------------
(* The specification *)

Init ==
    /\ leader \in BOOLEAN
    /\ canConnect = FALSE
    /\ versions = "ok"
    /\ objectStorage = [rel |-> FALSE, data |-> <<>>]
    /\ relationalDb = [rel |-> FALSE, data |-> <<>>]
    /\ secretsRel = FALSE
    /\ podDefaultsRel = FALSE
    /\ config \in ConfigValues
    /\ store = {}
    /\ plan = <<>>
    /\ status = InitialStatus
    /\ handler = "none"
    /\ outcome = "none"
    /\ raised = NoError
    /\ effects = <<>>
    /\ answers = <<>>
    /\ validated = "none"
    /\ desired = <<>>
    /\ assigned = <<>>
    /\ rerun = FALSE

Next ==
    \/ EventObserved
    \/ PebbleReady
    \/ RelationBroken
    \/ LeadershipChanges
    \/ ContainerChanges
    \/ VersionsChange
    \/ ObjectStorageChanges
    \/ RelationalDbChanges
    \/ SecretsRelationChanges
    \/ PodDefaultsRelationChanges
    \/ ConfigChanges
    \/ StoreChanges

Spec == Init /\ [][Next]_vars

-----------------------------------------------------------------------------
(* Events redelivered on inputs that stay as they are *)

\* The layer the charm computes from relation data d and o and bucket b.
LayerOf(d, o, b) ==
    _charmed_mlflow_layer(
        _get_env_vars([host |-> d.endpoints[1], port |-> d.endpoints[3],
                       username |-> d.username, password |-> d.password], o), b)

\* The plan a unit may hold when the inputs settle: nothing, or a layer applied
\* for some earlier data and bucket.
EarlierPlans ==
    {<<>>} \cup {<<LayerOf(d, o, b)>> :
                    d \in DbData, o \in ObjectStorageData, b \in ValidBuckets}

\* Both relations hold their data, the interface versions are compatible, and
\* nothing of the inputs changes afterwards.
LiveInit ==
    /\ leader \in BOOLEAN
    /\ canConnect \in BOOLEAN
    /\ versions = "ok"
    /\ objectStorage \in {[rel |-> TRUE, data |-> <<o>>] : o \in ObjectStorageData}
    /\ relationalDb \in {[rel |-> TRUE, data |-> <<d>>] : d \in DbData}
    /\ secretsRel \in BOOLEAN
    /\ podDefaultsRel \in BOOLEAN
    /\ config \in ConfigValues
    /\ store \in SUBSET ValidBuckets
    /\ plan \in EarlierPlans
    /\ status = InitialStatus
    /\ handler = "none"
    /\ outcome = "none"
    /\ raised = NoError
    /\ effects = <<>>
    /\ answers = <<>>
    /\ validated = "none"
    /\ desired = <<>>
    /\ assigned = <<>>
    /\ rerun = FALSE

\* An event bound to _on_event is delivered; the object store answers the second
\* check as the first, create_bucket returns and replan returns.
EventRedelivered ==
    \E pass \in {_on_event(config.default_artifact_root \in store, TRUE, TRUE)} :
        Finish("_on_event", pass)

\* pebble-ready is delivered, the calls succeeding likewise.
PebbleReadyRedelivered ==
    \E pass \in {_on_pebble_ready(config.default_artifact_root \in store, TRUE, TRUE)} :
        Finish("_on_pebble_ready", pass)

LiveNext ==
    \/ EventRedelivered
    \/ PebbleReadyRedelivered

\* Events bound to _on_event keep being delivered.
LiveSpec == LiveInit /\ [][LiveNext]_vars /\ WF_vars(EventRedelivered)

-----------------------------------------------------------------------------
(* Vocabulary of the properties *)

\* The handler that ran last made the call `e`.
Did(e) == \E i \in 1..Len(effects) : effects[i] = e

\* The last step ran a handler (on the environment as it still is).
HandlerRan == outcome # "none"

\* The last step was a reconciliation pass: _on_event was entered.
PassRan ==
    /\ handler \in {"_on_event", "_on_pebble_ready"}
    /\ outcome \in {"active", "stopped", "crashed"}

ObjectStorageMissing == ~(objectStorage.rel /\ objectStorage.data # <<>>)
DatabaseMissing == ~relationalDb.rel \/ relationalDb.data = <<>>

\* One of the preconditions the pass checks before it touches anything.
MissingPrecondition ==
    \/ ~leader
    \/ versions # "ok"
    \/ ObjectStorageMissing
    \/ DatabaseMissing

BucketValid == validate_s3_bucket_name(config.default_artifact_root)
CreateIfMissing == config.create_default_artifact_root_if_missing

-----------------------------------------------------------------------------
(* C1 - C5 *)

\* C1 (as claimed): whenever a handler has returned on a unit that is not the
\* leader, whatever the event, config and relation data, the unit status is
\* Waiting.
C1_NonLeaderAlwaysWaiting ==
    (HandlerRan /\ outcome \in {"set", "active", "stopped"} /\ ~leader)
        => status.name = "waiting"

\* C2 (as claimed): a leader whose workload image is not available (its container
\* cannot be connected to) is Blocked once the initial events, which run
\* _on_event, have been handled.
C2_MissingImageBlocked ==
    (handler = "_on_event" /\ HandlerRan /\ leader /\ ~canConnect)
        => status.name = "blocked"

\* C3 (as claimed): a pass on a leader with its workload container up and no
\* database relation ends Waiting with "Waiting for mysql relation data".
C3_NoRelationWaitingForMysql ==
    (PassRan /\ leader /\ canConnect /\ ~relationalDb.rel)
        => status = WaitingStatus("Waiting for mysql relation data")

\* C4: a pass re-run after a pass that ended Active, with config, relation data,
\* leadership, container and bucket state unchanged since that pass began, ends
\* Active again and makes no add_layer, no replan and no create_bucket call; the
\* plan is the layer it computed.
C4_RerunIsIdempotent ==
    rerun => /\ outcome = "active"
             /\ status = ActiveStatus
             /\ ~Did("add_layer")
             /\ ~Did("replan")
             /\ ~Did("create_bucket")
             /\ plan = desired

\* C4 witness: such a re-run happened, on a plan that holds a layer.
C4_Witness == rerun /\ handler = "_on_event" /\ plan # <<>>

\* C5 (as claimed): every ErrorWithStatus a handler raises is caught and becomes
\* the unit status; no handler ends with it uncaught.
C5_EveryErrorWithStatusCaught ==
    raised # NoError => (outcome = "stopped" /\ status = raised[1].status)

-----------------------------------------------------------------------------
(* C6 - C10 *)

PreconditionSteps == {"leader", "interfaces", "object_storage", "relational_db"}

\* C6: a pass that meets a missing precondition (not leader, interface versions
\* not listed or not compatible, no object-storage data, no database relation or
\* data) stops with the Waiting or Blocked status that precondition raised, and
\* in that step the object store is neither asked nor changed, the plan is not
\* changed, nothing is replanned and no manifests are sent.
C6_MissingPreconditionNoEffects ==
    [][(PassRan' /\ MissingPrecondition)
          => /\ outcome' = "stopped"
             /\ raised' # NoError
             /\ raised'[1].step \in PreconditionSteps
             /\ status' = raised'[1].status
             /\ status'.name \in {"waiting", "blocked"}
             /\ (~leader => status' = WaitingStatus("Waiting for leadership"))
             /\ answers' = <<>>
             /\ effects' = <<>>
             /\ store' = store
             /\ plan' = plan]_vars

\* C6 witness: a pass of a leader stopped for want of the database, with a bucket
\* in the store and a layer in the plan it could have touched.
C6_Witness ==
    /\ PassRan /\ leader /\ versions = "ok"
    /\ ~ObjectStorageMissing /\ DatabaseMissing
    /\ store # {} /\ plan # <<>>
    /\ status.name \in {"waiting", "blocked"}

\* The store's state as the validation last heard it: not accessible.
LastHeardNotAccessible == answers # <<>> /\ ~answers[Len(answers)]

\* C7 (as claimed), "not accessible" being the store's state as last reported to
\* the pass: create_bucket is called only for a valid name, a bucket reported not
\* accessible and the flag true; not accessible with the flag false ends Blocked
\* without creation; the validation returns False exactly when the bucket is not
\* accessible and the flag is true.  Stated of the passes that returned.
C7_AsClaimed ==
    (PassRan /\ outcome \in {"active", "stopped"}) =>
        /\ Did("create_bucket")
              => (BucketValid /\ LastHeardNotAccessible /\ CreateIfMissing)
        /\ (validated # "none" /\ BucketValid /\ LastHeardNotAccessible
                /\ ~CreateIfMissing)
              => (outcome = "stopped" /\ raised[1].step = "bucket_access"
                    /\ status.name = "blocked" /\ ~Did("create_bucket"))
        /\ validated \in {"true", "false"}
              => (validated = "false" <=> (LastHeardNotAccessible /\ CreateIfMissing))

\* C7 (amended): create_bucket is called only for a valid name, with the flag
\* true and the second accessibility check answering "not accessible"; when the
\* first check answers "not accessible" and the flag is false the pass ends
\* Blocked after that one check and creates nothing.  The validation returns
\* False exactly when the flag is true and the second check answers "not
\* accessible", and True exactly when the check that decides (the second with
\* the flag true, the first with it false) answers "accessible"; when both checks
\* agree this is the equivalence as claimed.
C7_BucketCreationDecided ==
    PassRan =>
        /\ Did("create_bucket")
              => (BucketValid /\ CreateIfMissing /\ validated = "false"
                    /\ Len(answers) = 2 /\ ~answers[2])
        /\ validated = "false" => Did("create_bucket")
        /\ (validated # "none" /\ BucketValid /\ ~CreateIfMissing /\ ~answers[1])
              => (outcome = "stopped" /\ raised[1].step = "bucket_access"
                    /\ status.name = "blocked" /\ Len(answers) = 1
                    /\ effects = <<>>)
        /\ (validated # "none" /\ BucketValid)
              => /\ validated = "false" <=> (CreateIfMissing /\ ~answers[2])
                 /\ validated = "true" <=>
                        IF CreateIfMissing THEN answers[2] ELSE answers[1]
                 /\ validated = "raised" <=> (~CreateIfMissing /\ ~answers[1])
        /\ (validated \in {"true", "false"} /\ Steady(answers))
              => (validated = "false" <=> (LastHeardNotAccessible /\ CreateIfMissing))

\* C7 witness: the bucket was created in a pass whose two checks disagreed.
C7_Witness ==
    PassRan /\ Did("create_bucket") /\ answers = <<TRUE, FALSE>>

\* C8: a pass that gets as far as the bucket with an invalid default_artifact_root
\* ends Blocked on the name, having asked the object store nothing, created no
\* bucket, computed and applied no layer and sent no manifests.
C8_InvalidNameNoStoreCall ==
    (PassRan /\ ~MissingPrecondition /\ ~BucketValid)
        => /\ outcome = "stopped"
           /\ status = BlockedStatus("Invalid value for config default_artifact_root")
           /\ answers = <<>>
           /\ effects = <<>>
           /\ desired = <<>>

\* C8 witness: such a pass ran.
C8_Witness ==
    PassRan /\ ~MissingPrecondition /\ ~BucketValid /\ validated = "raised"

\* create_bucket was called and the bucket is not in the store: the call failed.
CreateFailed ==
    PassRan /\ Did("create_bucket") /\ config.default_artifact_root \notin store

\* C9: when create_bucket fails the handler still returns, with status Blocked,
\* and the pass does nothing after the call: no layer is computed, added or
\* replanned and no manifests are sent.
C9_CreateFailureBlocks ==
    CreateFailed
        => /\ outcome = "stopped"
           /\ status.name = "blocked"
           /\ effects = <<"create_bucket">>
           /\ desired = <<>>

\* C9 witness: create_bucket failed in a pass that found a layer in the plan.
C9_Witness == CreateFailed /\ plan # <<>>

\* The bucket was created and the replan that followed raised ChangeError.
CreatedThenReplanFailed ==
    /\ PassRan /\ Did("create_bucket") /\ Did("replan")
    /\ raised # NoError /\ raised[1].step = "replan"

\* C10: when the bucket is created and the replan after it fails, the pass ends
\* Blocked, the bucket is still in the store, the new layer is still the plan,
\* and no manifests are sent.
C10_NoRollback ==
    CreatedThenReplanFailed
        => /\ outcome = "stopped"
           /\ status.name = "blocked"
           /\ config.default_artifact_root \in store
           /\ desired # <<>>
           /\ plan = desired
           /\ effects = <<"create_bucket", "add_layer", "replan">>

\* C10 witness: that happened with both downstream relations present.
C10_Witness == CreatedThenReplanFailed /\ secretsRel /\ podDefaultsRel

-----------------------------------------------------------------------------
(* C11 - C20 *)

\* The pass computed a layer: every input was there and the bucket name valid.
LayerComputed == PassRan /\ desired # <<>>

\* What the database relation supplies, as the pass read it.
Supplied == Head(relationalDb.data)

InputsComplete == ~MissingPrecondition /\ BucketValid

\* The bucket was usable in the pass: the validation returned True, or it
\* returned False and the bucket was created.
BucketUsable ==
    \/ validated = "true"
    \/ validated = "false" /\ config.default_artifact_root \in store

\* The command of layer l holds --default-artifact-root s3://<bucket>/.
ArtifactRootIn(l, bucket) ==
    \E i \in 1..(Len(l.command) - 1) :
        /\ l.command[i] = "--default-artifact-root"
        /\ l.command[i + 1] = <<"s3://", bucket, "/">>

\* The plan is one layer for the configured bucket, with the object-storage
\* relation's keys in its environment.
AppliedAsConfigured ==
    /\ Len(plan) = 1
    /\ ArtifactRootIn(plan[1], config.default_artifact_root)
    /\ plan[1].environment.AWS_ACCESS_KEY_ID = Head(objectStorage.data).access_key
    /\ plan[1].environment.AWS_SECRET_ACCESS_KEY = Head(objectStorage.data).secret_key

Count(e) == Cardinality({i \in 1..Len(effects) : effects[i] = e})

\* C13: manifests are sent to secrets, respectively pod-defaults, only in a pass
\* in which that relation has an interface object, and then once; a pass in which
\* every other step succeeded ends Active whether the relations are there or not,
\* having sent to exactly those that are.
C13_ManifestsOnlyWhereRelated ==
    PassRan =>
        /\ Did("secrets") => (secretsRel /\ Count("secrets") = 1)
        /\ Did("pod-defaults") => (podDefaultsRel /\ Count("pod-defaults") = 1)
        /\ (InputsComplete /\ BucketUsable /\ canConnect /\ raised = NoError)
              => /\ status = ActiveStatus
                 /\ Did("secrets") <=> secretsRel
                 /\ Did("pod-defaults") <=> podDefaultsRel

\* C13 witness: a pass ended Active with secrets related and pod-defaults not.
C13_Witness ==
    /\ PassRan /\ status = ActiveStatus /\ secretsRel /\ ~podDefaultsRel
    /\ Did("secrets") /\ ~Did("pod-defaults")

\* C14: in one handled event create_bucket, add_layer and replan are each called
\* at most once, and a call that failed is the last call of the pass; in a step
\* that handles no event nothing is attempted: no call is made, and the plan and
\* the status stay as the pass left them.
C14_NoRetry ==
    [][/\ Count("create_bucket")' <= 1
       /\ Count("add_layer")' <= 1
       /\ Count("replan")' <= 1
       /\ (raised' # NoError /\ raised'[1].step = "create_bucket")
             => effects' = <<"create_bucket">>
       /\ (raised' # NoError /\ raised'[1].step = "replan")
             => effects'[Len(effects')] = "replan"
       /\ handler' = "none"
             => (effects' = <<>> /\ plan' = plan /\ status' = status)]_vars

\* C14 witness: a pass created the bucket and its one replan failed.
C14_Witness ==
    /\ PassRan /\ Did("create_bucket") /\ Count("replan") = 1
    /\ raised # NoError /\ raised[1].step = "replan"

\* The calls of a pass, in the order _on_event makes them.
SideEffectOrder == <<"create_bucket", "add_layer", "replan", "secrets", "pod-defaults">>

\* C15: the calls a pass made are in the order create_bucket, add_layer, replan,
\* secrets, pod-defaults, each at most once; manifests are sent only in a pass
\* that raised nothing (no failed validation, creation or replan) and ended
\* Active, and a pass that ends Active ends so after all of its calls.
C15_FixedOrder ==
    PassRan =>
        /\ effects = SelectSeq(SideEffectOrder, Did)
        /\ Did("add_layer") <=> Did("replan")
        /\ (Did("secrets") \/ Did("pod-defaults"))
              => /\ raised = NoError
                 /\ validated \in {"true", "false"}
                 /\ ~CreateFailed
                 /\ outcome = "active"
                 /\ status = ActiveStatus

\* C15 witness: a pass made all five calls.
C15_Witness == PassRan /\ effects = SideEffectOrder

\* The layer desired for the relation data and the bucket as they are.
DesiredLayer ==
    LayerOf(Head(relationalDb.data), Head(objectStorage.data),
            config.default_artifact_root)

\* Active, the plan being the desired layer.
Converged == status = ActiveStatus /\ plan = <<DesiredLayer>>

ReplanFailed == PassRan /\ raised # NoError /\ raised[1].step = "replan"

\* C17 (as claimed): a pass that follows a pass in which replan failed, nothing
\* of the inputs having changed in between, does not end Active unless it
\* replanned successfully.
C17_ActiveOnlyAfterReplan ==
    [][(ReplanFailed /\ PassRan' /\ status' = ActiveStatus) => Did("replan")']_vars

\* The status of the first precondition that fails, <<>> if none does, in the
\* order leadership, interface versions, object-storage data, database relation,
\* database data, bucket name, bucket accessibility.
FirstFailure ==
    IF ~leader THEN <<WaitingStatus("Waiting for leadership")>>
    ELSE IF versions = "no_versions" THEN <<WaitingStatus("NoVersionsListed")>>
    ELSE IF versions = "no_compatible" THEN <<BlockedStatus("NoCompatibleVersions")>>
    ELSE IF ObjectStorageMissing
    THEN <<WaitingStatus("Waiting for object-storage relation data")>>
    ELSE IF ~relationalDb.rel
    THEN <<BlockedStatus("Please add relation to the database")>>
    ELSE IF relationalDb.data = <<>>
    THEN <<WaitingStatus("Waiting for relational-db relation data")>>
    ELSE IF ~BucketValid
    THEN <<BlockedStatus("Invalid value for config default_artifact_root")>>
    ELSE IF config.default_artifact_root \notin store /\ ~CreateIfMissing
    THEN <<BlockedStatus("Error with default S3 artifact store - bucket not accessible or does not exist")>>
    ELSE <<>>

C19_ActivePlanIsDesired ==
    (PassRan /\ outcome = "active")
        => /\ plan = <<DesiredLayer>>
           /\ desired = plan
           /\ \/ \E i \in 1..Len(answers) : answers[i]
              \/ Did("create_bucket") /\ config.default_artifact_root \in store

\* C19 witness: a pass ended Active over a plan it did not have to change, on a
\* bucket it had to create.
C19_Witness ==
    /\ PassRan /\ outcome = "active" /\ status = ActiveStatus
    /\ Did("create_bucket") /\ ~Did("add_layer") /\ plan # <<>>

\* The handler that ran last assigned MaintenanceStatus.
SetMaintenance ==
    \E i \in 1..Len(assigned) : assigned[i].name = "maintenance"

\* C20: a pass that returns leaves the status Active, Waiting or Blocked;
\* Maintenance is assigned only in a pass that adds the layer, before that pass's
\* last assignment, and by no pass that finds the plan equal to the layer.
C20_MaintenanceTransient ==
    PassRan =>
        /\ outcome \in {"active", "stopped"}
              => (status.name \in {"active", "waiting", "blocked"}
                    /\ assigned # <<>> /\ status = assigned[Len(assigned)])
        /\ SetMaintenance
              => (Did("add_layer") /\ assigned[Len(assigned)].name # "maintenance")
        /\ ~Did("add_layer") => ~SetMaintenance

\* C20 witness: a pass set Maintenance, replaced the layer and ended Active.
C20_Witness ==
    /\ PassRan /\ SetMaintenance /\ status = ActiveStatus
    /\ assigned = <<MaintenanceStatus("Applying new pebble layer"), ActiveStatus>>

====
